---------------------------- MODULE Spec2Model ----------------------------
(***************************************************************************)
(* Model of the Topic Frequency panel (src/src/ExamplePanel.tsx).          *)
(*                                                                         *)
(* Numbers.  A timestamp is a natural number of ticks (the source adds     *)
(* sec + nsec * 1e-9; the unit does not matter to any operation).  Every   *)
(* other number of the source (rates, means, variances, the outlier        *)
(* threshold) is an exact rational <<n, d>> with d > 0 in lowest terms.    *)
(* The source computes Math.sqrt(variance) and compares                    *)
(* |f - mean| <= threshold * stdDev; the model keeps the variance and      *)
(* compares the squares, which is the same order on non-negative numbers.  *)
(***************************************************************************)
EXTENDS Integers, Sequences, FiniteSets, TLC

(***************************************************************************)
(* Bounds of the model.                                                    *)
(***************************************************************************)
\* The retention cap.  The source's value is 1000 (line 38); the model
\* runs the same code with a small cap.
MAX_TIMESTAMPS_PER_TOPIC == 4
\* A frame (renderState.currentFrame) holds at most MaxFrame messages.
MaxFrame == 1
\* Direct calls of removeOutliers and of the summary block are given at most
\* MaxRates rates, direct calls of calculateFrequencyStats at most MaxStamps
\* timestamps.
MaxRates == 5
MaxStamps == 4
\* topicNames.slice(0, 5) of line 317: the number of topics selected at
\* first, scaled down
InitialSelectionSize == 2

\* Two topics.  Messages of topic "a" carry the timestamps
\* 0 .. MAX_TIMESTAMPS_PER_TOPIC, one more than the cap retains, so that its
\* Set overflows; topic "b" stands for every other topic and receives one
\* timestamp only, which keeps the state space small.
Topics == {"a", "b"}
TimesOf(topic) == IF topic = "a" THEN 0 .. MAX_TIMESTAMPS_PER_TOPIC ELSE {0}

(***************************************************************************)
(* Exact rational arithmetic.                                              *)
(***************************************************************************)
Abs(i) == IF i < 0 THEN -i ELSE i

RECURSIVE GCD(_, _)
GCD(a, b) == IF b = 0 THEN a ELSE GCD(b, a % b)

Rat(n, d) ==
    LET g == GCD(Abs(n), d)
    IN  IF n = 0 THEN <<0, 1>> ELSE <<n \div g, d \div g>>

RInt(i) == <<i, 1>>
Zero == RInt(0)
LCM(a, b) == (a \div GCD(a, b)) * b
RAdd(x, y) ==
    LET l == LCM(x[2], y[2])
    IN  Rat(x[1] * (l \div x[2]) + y[1] * (l \div y[2]), l)
RNeg(x) == <<-x[1], x[2]>>
RSub(x, y) == RAdd(x, RNeg(y))
RMul(x, y) ==
    LET g1 == GCD(Abs(x[1]), y[2])
        g2 == GCD(Abs(y[1]), x[2])
        a1 == IF x[1] = 0 THEN 1 ELSE g1
        a2 == IF y[1] = 0 THEN 1 ELSE g2
    IN  Rat((x[1] \div a1) * (y[1] \div a2), (x[2] \div a2) * (y[2] \div a1))
\* x / k for an integer k > 0
RDivInt(x, k) == RMul(x, <<1, k>>)
RSquare(x) == <<x[1] * x[1], x[2] * x[2]>>
RLeq(x, y) ==
    LET l == LCM(x[2], y[2])
    IN  x[1] * (l \div x[2]) <= y[1] * (l \div y[2])
RLess(x, y) == RLeq(x, y) /\ x # y


(***************************************************************************)
(* Arrays.                                                                 *)
(***************************************************************************)
\* Array.prototype.sort: a stable sort.  before holds the pairs <<i, j>> of
\* indices for which the comparator puts s[i] before s[j].
StableSort(s, before) ==
    LET n == Len(s)
        pos(i) == Cardinality({j \in 1 .. n :
                      <<j, i>> \in before
                      \/ (<<i, j>> \notin before /\ j < i)}) + 1
    IN  [k \in 1 .. n |-> s[CHOOSE i \in 1 .. n : pos(i) = k]]

IndexPairs(s) == (1 .. Len(s)) \X (1 .. Len(s))

\* sort((a, b) => a - b) and sort((a, b) => b - a) of timestamps
SortAscending(s) == StableSort(s, {p \in IndexPairs(s) : s[p[1]] < s[p[2]]})
SortDescending(s) == StableSort(s, {p \in IndexPairs(s) : s[p[1]] > s[p[2]]})

\* String(n) of a natural number, as its sequence of decimal digits.
RECURSIVE Digits(_)
Digits(n) == IF n < 10 THEN <<n>> ELSE Append(Digits(n \div 10), n % 10)

\* The order of Array.prototype.sort() without a comparator: the elements
\* are compared as strings.
StringLess(a, b) ==
    LET x == Digits(a)
        y == Digits(b)
        m == IF Len(x) < Len(y) THEN Len(x) ELSE Len(y)
        differ == {i \in 1 .. m : x[i] # y[i]}
        first == CHOOSE i \in differ : \A j \in differ : i <= j
    IN  IF differ = {} THEN Len(x) < Len(y) ELSE x[first] < y[first]

\* sort() of timestamps
SortDefault(s) ==
    StableSort(s, {p \in IndexPairs(s) : StringLess(s[p[1]], s[p[2]])})

\* Array.from(set): the elements of a Set as an array.  Every reader of the
\* array sorts it or takes its length or maximum, so the Set's insertion
\* order is not kept in the model; the array is built in some fixed order.
RECURSIVE ArrayFrom(_)
ArrayFrom(S) ==
    IF S = {} THEN <<>>
    ELSE LET x == CHOOSE y \in S : TRUE
         IN  <<x>> \o ArrayFrom(S \ {x})

\* frequencies.reduce((acc, freq) => acc + freq, 0)
RECURSIVE SumSeq(_)
SumSeq(s) ==
    IF s = <<>> THEN Zero
    ELSE RAdd(SumSeq(SubSeq(s, 1, Len(s) - 1)), s[Len(s)])

\* frequencies.reduce((acc, freq) => acc + (freq - mean) ** 2, 0)
RECURSIVE SumSquaredDeviations(_, _)
SumSquaredDeviations(s, mean) ==
    IF s = <<>> THEN Zero
    ELSE RAdd(SumSquaredDeviations(SubSeq(s, 1, Len(s) - 1), mean),
              RSquare(RSub(s[Len(s)], mean)))

\* Math.max(...array) of a non-empty array of timestamps
MaxOf(S) == CHOOSE x \in S : \A y \in S : y <= x

\* Math.min(...array), Math.max(...array) of a non-empty array of rates
RMin(s) == s[CHOOSE i \in 1 .. Len(s) : \A j \in 1 .. Len(s) : RLeq(s[i], s[j])]
RMax(s) == s[CHOOSE i \in 1 .. Len(s) : \A j \in 1 .. Len(s) : RLeq(s[j], s[i])]

(***************************************************************************)
(* removeOutliers and calculateFrequencyStats.                             *)
(***************************************************************************)
\* WithinThreshold with < for <=.
StrictlyWithinThreshold(freq, mean, threshold, variance) ==
    IF threshold[1] >= 0
    THEN RLess(RSquare(RSub(freq, mean)), RMul(RSquare(threshold), variance))
    ELSE FALSE

\* Math.abs(freq - mean) <= threshold * stdDev, where stdDev is
\* Math.sqrt(variance).  For threshold >= 0 both sides are non-negative and
\* the squares compare alike; for threshold < 0 the right side is negative
\* unless stdDev is 0, and then every freq equals the mean.
WithinThreshold(freq, mean, threshold, variance) ==
    IF threshold[1] >= 0
    THEN RLeq(RSquare(RSub(freq, mean)), RMul(RSquare(threshold), variance))
    ELSE variance = Zero

\* removeOutliers returning early for fewer than 2 rates instead of 3.
removeOutliersFromTwo(frequencies, threshold) ==
    IF Len(frequencies) < 2 THEN frequencies
    ELSE LET sum == SumSeq(frequencies)
             mean == RDivInt(sum, Len(frequencies))
             variance == RDivInt(SumSquaredDeviations(frequencies, mean),
                                 Len(frequencies))
             keep(freq) == WithinThreshold(freq, mean, threshold, variance)
         IN  SelectSeq(frequencies, keep)

\* removeOutliers replacing each outlier by the mean instead of dropping it.
removeOutliersClamping(frequencies, threshold) ==
    IF Len(frequencies) < 3 THEN frequencies
    ELSE LET sum == SumSeq(frequencies)
             mean == RDivInt(sum, Len(frequencies))
             variance == RDivInt(SumSquaredDeviations(frequencies, mean),
                                 Len(frequencies))
         IN  [i \in 1 .. Len(frequencies) |->
                 IF WithinThreshold(frequencies[i], mean, threshold, variance)
                 THEN frequencies[i] ELSE mean]

removeOutliers(frequencies, threshold) ==
    IF Len(frequencies) < 3 THEN frequencies
    ELSE LET sum == SumSeq(frequencies)
             mean == RDivInt(sum, Len(frequencies))
             variance == RDivInt(SumSquaredDeviations(frequencies, mean),
                                 Len(frequencies))
             keep(freq) == WithinThreshold(freq, mean, threshold, variance)
         IN  SelectSeq(frequencies, keep)

\* Intervals with interval >= 0 for interval > 0: a zero interval emits
\* 1.0 / 0, which is Infinity, written <<1, 0>>.
IntervalsKeepingZero(sortedTimestamps) ==
    LET n == Len(sortedTimestamps)
        interval == [i \in 1 .. n - 1 |->
                        sortedTimestamps[i + 1] - sortedTimestamps[i]]
    IN  [i \in 1 .. n - 1 |->
            IF interval[i] > 0 THEN Rat(1, interval[i]) ELSE RInt(1)]

\* Intervals with the loop starting at i = 2: the first pair is skipped.
IntervalsFromSecondPair(sortedTimestamps) ==
    LET n == Len(sortedTimestamps)
        interval == [i \in 1 .. n - 2 |->
                        sortedTimestamps[i + 2] - sortedTimestamps[i + 1]]
        positive(d) == d > 0
        kept == SelectSeq(interval, positive)
    IN  [i \in 1 .. Len(kept) |-> Rat(1, kept[i])]

\* The loop of lines 90-95: one rate per consecutive pair of the sorted
\* timestamps whose interval is positive.
Intervals(sortedTimestamps) ==
    LET n == Len(sortedTimestamps)
        interval == [i \in 1 .. n - 1 |->
                        sortedTimestamps[i + 1] - sortedTimestamps[i]]
        positive(d) == d > 0
        kept == SelectSeq(interval, positive)
    IN  [i \in 1 .. Len(kept) |-> Rat(1, kept[i])]

\* sort((a, b) => a - b) of rates
SortRates(s) == StableSort(s, {p \in IndexPairs(s) : RLess(s[p[1]], s[p[2]])})

\* Median without the even case of lines 131-133: the upper middle rate is
\* taken whatever the parity.
MedianUpperMiddle(filteredFrequencies) ==
    LET sortedFiltered == SortRates(filteredFrequencies)
        medianIndex == Len(sortedFiltered) \div 2
    IN  sortedFiltered[medianIndex + 1]

\* median of lines 130-135
Median(filteredFrequencies) ==
    LET sortedFiltered == SortRates(filteredFrequencies)
        medianIndex == Len(sortedFiltered) \div 2
    IN  IF Len(sortedFiltered) % 2 = 0
        THEN RDivInt(RAdd(sortedFiltered[medianIndex],
                          sortedFiltered[medianIndex + 1]), 2)
        ELSE sortedFiltered[medianIndex + 1]

\* Lines 128-149: the statistics of a non-empty array of filtered rates.
Summarize(filteredFrequencies) ==
    LET sum == SumSeq(filteredFrequencies)
        average == RDivInt(sum, Len(filteredFrequencies))
        variance ==
            RDivInt(SumSquaredDeviations(filteredFrequencies, average),
                    Len(filteredFrequencies))
    IN  [averageFrequency |-> average,
         medianFrequency |-> Median(filteredFrequencies),
         variance |-> variance,
         minFrequency |-> RMin(filteredFrequencies),
         maxFrequency |-> RMax(filteredFrequencies)]

\* ZeroStats with the guard of line 115 missing: when every rate was
\* filtered out the statistics are taken over the unfiltered rates.
ZeroStatsFromUnfiltered(count, intervals, outlierCount) ==
    IF intervals = <<>>
    THEN [messageCount |-> count,
          frequencies |-> intervals,
          averageFrequency |-> Zero,
          medianFrequency |-> Zero,
          variance |-> Zero,
          minFrequency |-> Zero,
          maxFrequency |-> Zero,
          filteredFrequencies |-> <<>>,
          outlierCount |-> outlierCount]
    ELSE [messageCount |-> count,
          frequencies |-> intervals,
          filteredFrequencies |-> <<>>,
          outlierCount |-> outlierCount]
         @@ Summarize(intervals)

\* The summary with no usable rates (lines 74-84, 98-108, 115-125).
ZeroStats(count, intervals, outlierCount) ==
    [messageCount |-> count,
     frequencies |-> intervals,
     averageFrequency |-> Zero,
     medianFrequency |-> Zero,
     variance |-> Zero,
     minFrequency |-> Zero,
     maxFrequency |-> Zero,
     filteredFrequencies |-> <<>>,
     outlierCount |-> outlierCount]

\* calculateFrequencyStats(timestamps), which reads outlierThreshold from
\* the closure.  The field variance is the square of stdDeviation.
calculateFrequencyStats(timestamps, outlierThreshold) ==
    IF Len(timestamps) < 2 THEN ZeroStats(Len(timestamps), <<>>, 0)
    ELSE
    LET sortedTimestamps == SortAscending(timestamps)
        intervals == Intervals(sortedTimestamps)
    IN  IF Len(intervals) = 0 THEN ZeroStats(Len(timestamps), <<>>, 0)
        ELSE
        LET filteredFrequencies == removeOutliers(intervals, outlierThreshold)
            outlierCount == Len(intervals) - Len(filteredFrequencies)
        IN  IF Len(filteredFrequencies) = 0
            THEN ZeroStats(Len(timestamps), intervals, outlierCount)
            ELSE
            [messageCount |-> Len(timestamps),
             frequencies |-> intervals,
             filteredFrequencies |-> filteredFrequencies,
             outlierCount |-> outlierCount]
            @@ Summarize(filteredFrequencies)


(***************************************************************************)
(* The panel's state.                                                      *)
(***************************************************************************)
VARIABLES
    topicTimestamps,    \* useState<TopicTimestamps>: topic -> Set of timestamps;
                        \* a topic without messages is not in the domain
    statsCache,         \* useRef<CachedStats>: topic -> {stats, lastUpdate,
                        \* timestampCount}
    outlierThreshold,   \* useState<number>(2.0)
    last,               \* the operation that led to this state: its inputs,
                        \* topicTimestamps before it, and what it returned
                        \* or signalled
    served,             \* per topic, the number of getCachedStats calls since
                        \* the last message of the topic was processed,
                        \* counted up to 2
    call,               \* the last direct call of one of the pure functions:
                        \* its arguments and its result
    inserted,           \* per topic, every timestamp a message of the topic
                        \* has carried so far
    topics,             \* useState<Topic[] | undefined>: the names of
                        \* renderState.topics, or undefined
    selectedTopics,     \* useState<string[]>([])
    subscriptions,      \* the argument of the most recent context.subscribe
                        \* call, if there was one
    effectPending,      \* the effect of lines 314-320 is due: it was mounted
                        \* or one of its dependencies changed
    emptied             \* the user's last selection action left the
                        \* selection empty while the topic list was known
                        \* and non-empty

selectionVars ==
    <<topics, selectedTopics, subscriptions, effectPending, emptied>>

vars == <<topicTimestamps, statsCache, outlierThreshold, last, served, call,
          inserted, selectionVars>>

\* The values the threshold input delivers to setOutlierThreshold.
Thresholds == {<<1, 2>>, <<1, 1>>, <<2, 1>>}

\* A message event: its topic and receiveTime.sec + receiveTime.nsec * 1e-9.
MessageEvents ==
    {[topic |-> t, timestamp |-> ts] : <<t, ts>> \in
        {<<t, ts>> \in Topics \X (0 .. MAX_TIMESTAMPS_PER_TOPIC) :
            ts \in TimesOf(t)}}

\* renderState.currentFrame
Frames == UNION {[1 .. n -> MessageEvents] : n \in 0 .. MaxFrame}

NoStats == [topic |-> "", messageCount |-> 0]

Idle == [op |-> "none", topic |-> "", frame |-> <<>>, hasChanges |-> FALSE,
         before |-> <<>>, stats |-> NoStats, recomputed |-> FALSE]

NoCall == [fn |-> "none", input |-> <<>>, threshold |-> Zero,
           returned |-> FALSE, output |-> <<>>]

\* array.slice(0, end)
Slice(array, end) ==
    SubSeq(array, 1, IF end < Len(array) THEN end ELSE Len(array))

\* topics?.map((topic) => topic.name) of a topic list the host delivered
Known(names) == [defined |-> TRUE, names |-> names]

\* The panel's selection once the host has delivered the topics a, b and
\* the effect of lines 314-320 has run: the first topics are selected and
\* all are subscribed.  Every later render delivers the same list.
SelectionSettled ==
    /\ topics = Known(<<"a", "b">>)
    /\ selectedTopics = Slice(<<"a", "b">>, InitialSelectionSize)
    /\ subscriptions = [called |-> TRUE, topics |-> <<"a", "b">>]
    /\ effectPending = FALSE
    /\ emptied = FALSE

Init ==
    /\ topicTimestamps = <<>>
    /\ statsCache = <<>>
    /\ outlierThreshold = <<2, 1>>
    /\ last = Idle
    /\ served = [t \in Topics |-> 0]
    /\ call = NoCall
    /\ inserted = [t \in Topics |-> {}]
    /\ SelectionSettled

\* obj[key] = value of a JavaScript object used as a map
Put(obj, key, value) ==
    [k \in DOMAIN obj \cup {key} |-> IF k = key THEN value ELSE obj[k]]

\* Delete that empties the whole object.
DeleteAll(obj, key) == [k \in {} |-> obj[k]]

\* delete obj[key]
Delete(obj, key) == [k \in DOMAIN obj \ {key} |-> obj[k]]

(***************************************************************************)
(* context.onRender: the updater given to setTopicTimestamps.              *)
(***************************************************************************)
\* Truncated with the comparator of the sort reversed (a - b): the oldest
\* timestamps are kept.
TruncatedAscending(timestamps) ==
    LET sortedTimestamps == SortAscending(ArrayFrom(timestamps))
        n == IF Len(sortedTimestamps) < MAX_TIMESTAMPS_PER_TOPIC
             THEN Len(sortedTimestamps) ELSE MAX_TIMESTAMPS_PER_TOPIC
    IN  {sortedTimestamps[i] : i \in 1 .. n}

\* Truncated with slice(1, MAX_TIMESTAMPS_PER_TOPIC + 1): the newest
\* timestamp is dropped.
TruncatedFromSecond(timestamps) ==
    LET sortedTimestamps == SortDescending(ArrayFrom(timestamps))
        n == IF Len(sortedTimestamps) < MAX_TIMESTAMPS_PER_TOPIC + 1
             THEN Len(sortedTimestamps) ELSE MAX_TIMESTAMPS_PER_TOPIC + 1
    IN  {sortedTimestamps[i] : i \in 2 .. n}

\* Lines 298-299: the MAX_TIMESTAMPS_PER_TOPIC first of the timestamps
\* sorted in descending order, as a Set.
Truncated(timestamps) ==
    LET sortedTimestamps == SortDescending(ArrayFrom(timestamps))
        n == IF Len(sortedTimestamps) < MAX_TIMESTAMPS_PER_TOPIC
             THEN Len(sortedTimestamps) ELSE MAX_TIMESTAMPS_PER_TOPIC
    IN  {sortedTimestamps[i] : i \in 1 .. n}

\* ExceedsCap off by one.
ExceedsCapByTwo(timestamps) ==
    Cardinality(timestamps) > MAX_TIMESTAMPS_PER_TOPIC + 1

\* The size test of line 297.
ExceedsCap(timestamps) == Cardinality(timestamps) > MAX_TIMESTAMPS_PER_TOPIC

\* Grew with >= for >.
GrewOrSame(timestamps, prevSize) == Cardinality(timestamps) >= prevSize

\* The size test of line 294.
Grew(timestamps, prevSize) == Cardinality(timestamps) > prevSize

\* ProcessMessage without the delete of line 300.
ProcessMessageKeepingCache(acc, messageEvent) ==
    LET topic == messageEvent.topic
        timestamp == messageEvent.timestamp
        existing == IF topic \in DOMAIN acc.updated
                    THEN acc.updated[topic] ELSE {}
        prevSize == Cardinality(existing)
        added == existing \cup {timestamp}
    IN  IF Grew(added, prevSize)
        THEN [updated |-> Put(acc.updated, topic,
                              IF ExceedsCap(added)
                              THEN Truncated(added) ELSE added),
              hasChanges |-> TRUE,
              cache |-> acc.cache]
        ELSE acc

\* The body of the forEach (lines 284-302) for one message event.  acc holds
\* the updater's locals updated and hasChanges, and statsCache.current.
ProcessMessage(acc, messageEvent) ==
    LET topic == messageEvent.topic
        timestamp == messageEvent.timestamp
        existing == IF topic \in DOMAIN acc.updated
                    THEN acc.updated[topic] ELSE {}
        prevSize == Cardinality(existing)
        added == existing \cup {timestamp}
    IN  IF Grew(added, prevSize)
        THEN IF ExceedsCap(added)
             THEN [updated |-> Put(acc.updated, topic, Truncated(added)),
                   hasChanges |-> TRUE,
                   cache |-> Delete(acc.cache, topic)]
             ELSE [updated |-> Put(acc.updated, topic, added),
                   hasChanges |-> TRUE,
                   cache |-> acc.cache]
        ELSE acc

RECURSIVE ProcessFrame(_, _)
ProcessFrame(acc, frame) ==
    IF frame = <<>> THEN acc
    ELSE ProcessFrame(ProcessMessage(acc, Head(frame)), Tail(frame))

OnRender(frame) ==
    LET done == ProcessFrame([updated |-> topicTimestamps,
                              hasChanges |-> FALSE,
                              cache |-> statsCache], frame)
    IN  /\ topicTimestamps' =
               IF done.hasChanges THEN done.updated ELSE topicTimestamps
        /\ statsCache' = done.cache
        /\ UNCHANGED <<outlierThreshold, call, selectionVars>>
        /\ inserted' = [t \in Topics |->
                            inserted[t] \cup
                            {frame[i].timestamp :
                                i \in {j \in 1 .. Len(frame) :
                                          frame[j].topic = t}}]
        /\ last' = [Idle EXCEPT !.op = "onRender", !.frame = frame,
                                !.before = topicTimestamps,
                                !.hasChanges = done.hasChanges]
        /\ served' = [t \in Topics |->
                          IF \E i \in 1 .. Len(frame) : frame[i].topic = t
                          THEN 0 ELSE served[t]]

(***************************************************************************)
(* getCachedStats                                                          *)
(***************************************************************************)
\* timestamps?.size || 0
TimestampCount(topic) ==
    IF topic \in DOMAIN topicTimestamps
    THEN Cardinality(topicTimestamps[topic]) ELSE 0

\* timestamps ? Math.max(...Array.from(timestamps)) : 0
LastUpdate(topic) ==
    IF topic \in DOMAIN topicTimestamps
    THEN MaxOf(topicTimestamps[topic]) ELSE 0

\* CacheHit comparing lastUpdate only.
CacheHitByLastUpdate(topic) ==
    /\ topic \in DOMAIN statsCache
    /\ statsCache[topic].lastUpdate = LastUpdate(topic)

\* CacheHit comparing the cached count with the wrong local.
CacheHitWrongField(topic) ==
    /\ topic \in DOMAIN statsCache
    /\ statsCache[topic].lastUpdate = LastUpdate(topic)
    /\ statsCache[topic].timestampCount = LastUpdate(topic)

\* The test of line 164.
CacheHit(topic) ==
    /\ topic \in DOMAIN statsCache
    /\ statsCache[topic].lastUpdate = LastUpdate(topic)
    /\ statsCache[topic].timestampCount = TimestampCount(topic)

\* Lines 168-171: Array.from(timestamps || []).sort() handed to
\* calculateFrequencyStats, with the topic added to the result.
ComputeStats(topic) ==
    LET timestamps == IF topic \in DOMAIN topicTimestamps
                      THEN topicTimestamps[topic] ELSE {}
    IN  [topic |-> topic] @@
        calculateFrequencyStats(SortDefault(ArrayFrom(timestamps)),
                                outlierThreshold)

GetCachedStats(topic) ==
    /\ IF CacheHit(topic)
       THEN /\ last' = [Idle EXCEPT !.op = "getCachedStats", !.topic = topic,
                                    !.stats = statsCache[topic].stats]
            /\ UNCHANGED statsCache
       ELSE LET stats == ComputeStats(topic)
            IN  /\ statsCache' = Put(statsCache, topic,
                                     [stats |-> stats,
                                      lastUpdate |-> LastUpdate(topic),
                                      timestampCount |-> TimestampCount(topic)])
                /\ last' = [Idle EXCEPT !.op = "getCachedStats",
                                        !.topic = topic, !.stats = stats,
                                        !.recomputed = TRUE]
    /\ served' = [served EXCEPT ![topic] = IF @ < 2 THEN @ + 1 ELSE 2]
    /\ UNCHANGED <<topicTimestamps, outlierThreshold, call, inserted,
                   selectionVars>>

(***************************************************************************)
(* The threshold input's onChange (lines 381-383).                         *)
(***************************************************************************)
SetOutlierThreshold(value) ==
    /\ outlierThreshold' = value
    /\ last' = [Idle EXCEPT !.op = "setOutlierThreshold"]
    /\ UNCHANGED <<topicTimestamps, statsCache, served, call, inserted,
                   selectionVars>>

Next ==
    \/ \E frame \in Frames : OnRender(frame)
    \/ \E topic \in Topics : GetCachedStats(topic)
    \/ \E value \in Thresholds : SetOutlierThreshold(value)

Spec == Init /\ [][Next]_vars


(***************************************************************************)
(* The panel with the threshold left alone: the state after the user has   *)
(* set a threshold, and then every operation but setOutlierThreshold.      *)
(***************************************************************************)
InitFixedThreshold ==
    /\ topicTimestamps = <<>>
    /\ statsCache = <<>>
    /\ outlierThreshold \in Thresholds
    /\ last = [Idle EXCEPT !.op = "setOutlierThreshold"]
    /\ served = [t \in Topics |-> 0]
    /\ call = NoCall
    /\ inserted = [t \in Topics |-> {}]
    /\ SelectionSettled

NextFixedThreshold ==
    \/ \E frame \in Frames : OnRender(frame)
    \/ \E topic \in Topics : GetCachedStats(topic)

SpecFixedThreshold == InitFixedThreshold /\ [][NextFixedThreshold]_vars

(***************************************************************************)
(* The pure functions called directly, on inputs the panel's own data      *)
(* does not reach within the bounds above.                                 *)
(***************************************************************************)
\* Rates and thresholds handed to the functions directly.
RateValues == {RInt(1), RInt(2), RInt(4), RInt(6), RInt(100)}
RateArrays == UNION {[1 .. n -> RateValues] : n \in 0 .. MaxRates}
TimestampArrays == UNION {[1 .. n -> 0 .. MaxStamps + 1] : n \in 0 .. MaxStamps}
AnyThresholds == Thresholds \cup {RInt(-1), RInt(0), RInt(5)}

PanelIdle ==
    /\ topicTimestamps = <<>>
    /\ statsCache = <<>>
    /\ outlierThreshold = <<2, 1>>
    /\ last = Idle
    /\ served = [t \in Topics |-> 0]
    /\ inserted = [t \in Topics |-> {}]
    /\ SelectionSettled

\* The call about to be made: the function and its arguments.
InitPure ==
    /\ PanelIdle
    /\ \/ \E frequencies \in RateArrays, threshold \in AnyThresholds :
              call = [NoCall EXCEPT !.fn = "removeOutliers",
                                    !.input = frequencies,
                                    !.threshold = threshold]
       \/ \E timestamps \in TimestampArrays, threshold \in AnyThresholds :
              call = [NoCall EXCEPT !.fn = "calculateFrequencyStats",
                                    !.input = timestamps,
                                    !.threshold = threshold]
       \/ \E filteredFrequencies \in RateArrays \ {<<>>} :
              call = [NoCall EXCEPT !.fn = "summarize",
                                    !.input = filteredFrequencies]

CallRemoveOutliers ==
    /\ call.fn = "removeOutliers" /\ ~call.returned
    /\ call' = [call EXCEPT !.returned = TRUE,
                            !.output = removeOutliers(call.input, call.threshold)]
    /\ UNCHANGED <<topicTimestamps, statsCache, outlierThreshold, last, served,
                   inserted, selectionVars>>

CallCalculateFrequencyStats ==
    /\ call.fn = "calculateFrequencyStats" /\ ~call.returned
    /\ call' = [call EXCEPT !.returned = TRUE,
                            !.output = calculateFrequencyStats(call.input,
                                                               call.threshold)]
    /\ UNCHANGED <<topicTimestamps, statsCache, outlierThreshold, last, served,
                   inserted, selectionVars>>

CallSummarize ==
    /\ call.fn = "summarize" /\ ~call.returned
    /\ call' = [call EXCEPT !.returned = TRUE,
                            !.output = Summarize(call.input)]
    /\ UNCHANGED <<topicTimestamps, statsCache, outlierThreshold, last, served,
                   inserted, selectionVars>>

NextPure ==
    \/ CallRemoveOutliers
    \/ CallCalculateFrequencyStats
    \/ CallSummarize

SpecPure == InitPure /\ [][NextPure]_vars


(***************************************************************************)
(* Properties.                                                             *)
(***************************************************************************)
\* The timestamps of a topic now and before the last operation.
TimestampsOf(topic) ==
    IF topic \in DOMAIN topicTimestamps THEN topicTimestamps[topic] ELSE {}
Before(topic) ==
    IF topic \in DOMAIN last.before THEN last.before[topic] ELSE {}

\* The timestamps the last frame delivered for a topic, and the topic's set
\* with all of them inserted.
Delivered(topic) ==
    {last.frame[i].timestamp :
        i \in {j \in 1 .. Len(last.frame) : last.frame[j].topic = topic}}
PostInsert(topic) == Before(topic) \cup Delivered(topic)

\* The n largest elements of a set of numbers.
Largest(S, n) == {x \in S : Cardinality({y \in S : y > x}) < n}

\* The elements of a set of numbers in ascending order.
Ascending(S) ==
    [i \in 1 .. Cardinality(S) |->
        CHOOSE x \in S : Cardinality({y \in S : y < x}) = i - 1]

\* A summary computed from scratch over the topic's current timestamps with
\* the current threshold.
FreshStats(topic) ==
    [topic |-> topic] @@
    calculateFrequencyStats(Ascending(TimestampsOf(topic)), outlierThreshold)

\* C1: with the threshold held fixed, every summary getCachedStats returns,
\* from the cache or not, equals the summary computed from scratch over the
\* topic's current timestamps.
C1_NoStaleSummary ==
    last.op = "getCachedStats" => last.stats = FreshStats(last.topic)

\* C1 happens: a summary with an outlier is served from the cache for a
\* topic whose set is at the cap.
C1_Witness ==
    /\ last.op = "getCachedStats"
    /\ ~last.recomputed
    /\ Cardinality(TimestampsOf(last.topic)) = MAX_TIMESTAMPS_PER_TOPIC
    /\ last.stats.outlierCount > 0

\* C2: when the timestamps a frame inserts make a topic's set exceed the
\* cap, the set afterwards is the cap largest values of the set with the
\* inserts, and the topic has no cache entry.
C2_TruncatesAndInvalidates ==
    last.op = "onRender" =>
        \A t \in Topics :
            Cardinality(PostInsert(t)) > MAX_TIMESTAMPS_PER_TOPIC =>
                /\ TimestampsOf(t) = Largest(PostInsert(t),
                                             MAX_TIMESTAMPS_PER_TOPIC)
                /\ t \notin DOMAIN statsCache

\* C2 happens: an insert exceeded the cap, the new timestamp was kept and an
\* older one evicted.
C2_Witness ==
    /\ last.op = "onRender"
    /\ \E t \in Topics :
           /\ Cardinality(PostInsert(t)) > MAX_TIMESTAMPS_PER_TOPIC
           /\ Delivered(t) \subseteq TimestampsOf(t)
           /\ Before(t) \ TimestampsOf(t) # {}

\* C3: no topic's set ever holds more than MAX_TIMESTAMPS_PER_TOPIC
\* timestamps.
C3_SetWithinCap ==
    \A t \in DOMAIN topicTimestamps :
        Cardinality(topicTimestamps[t]) <= MAX_TIMESTAMPS_PER_TOPIC

\* C3 happens: a frame pushed a set over the cap and left it at the cap.
C3_Witness ==
    /\ last.op = "onRender"
    /\ \E t \in Topics :
           /\ Cardinality(PostInsert(t)) > MAX_TIMESTAMPS_PER_TOPIC
           /\ Cardinality(TimestampsOf(t)) = MAX_TIMESTAMPS_PER_TOPIC

\* The last operation was a frame all of whose messages carry a timestamp
\* their topic's set already held.
OnlyDuplicates ==
    /\ last.op = "onRender"
    /\ last.frame # <<>>
    /\ \A i \in 1 .. Len(last.frame) :
           last.frame[i].timestamp \in Before(last.frame[i].topic)

\* C4: inserting timestamps a set already holds changes neither the sets
\* (so neither cardinality nor fingerprint) nor the cache, does not raise
\* hasChanges, and a topic whose cache entry was current stays current.
C4_DuplicateInsertIsNoOp ==
    [][OnlyDuplicates' =>
           /\ topicTimestamps' = topicTimestamps
           /\ statsCache' = statsCache
           /\ ~last'.hasChanges
           /\ \A t \in Topics :
                  /\ LastUpdate(t)' = LastUpdate(t)
                  /\ TimestampCount(t)' = TimestampCount(t)
                  /\ CacheHit(t) => CacheHit(t)']_vars

\* C4 happens: a duplicate was inserted into a topic that has a current
\* cache entry.
C4_Witness ==
    /\ OnlyDuplicates
    /\ CacheHit(last.frame[1].topic)

\* C5: a getCachedStats call for a topic that follows another one with no
\* message of the topic processed in between returns the cached summary,
\* computes nothing and leaves the cache as it is.
C5_SecondCallServedFromCache ==
    [][\A t \in Topics :
           (served[t] >= 1 /\ last'.op = "getCachedStats" /\ last'.topic = t)
               => /\ ~last'.recomputed
                  /\ statsCache' = statsCache
                  /\ last'.stats = statsCache[t].stats]_vars

\* C5 happens: the second call in a row for a topic with timestamps.
C5_Witness ==
    /\ last.op = "getCachedStats"
    /\ served[last.topic] = 2
    /\ last.topic \in DOMAIN topicTimestamps

\* C6: hasChanges is raised exactly when the frame changed the contents of
\* some topic's set.
C6_ChangedIffContentsChanged ==
    last.op = "onRender" =>
        (last.hasChanges <=> topicTimestamps # last.before)

\* C7: every summary getCachedStats returns has as its messageCount the
\* size of the topic's set at the call, 0 for a topic without a set.
C7_MessageCountIsSetSize ==
    last.op = "getCachedStats" =>
        last.stats.messageCount = Cardinality(TimestampsOf(last.topic))

\* C7 happens: a summary of a topic with timestamps is served from the
\* cache.
C7_Witness ==
    /\ last.op = "getCachedStats"
    /\ ~last.recomputed
    /\ last.stats.messageCount > 1

\* a is b with elements removed, the rest in b's order.
RECURSIVE IsSubsequence(_, _)
IsSubsequence(a, b) ==
    IF a = <<>> THEN TRUE
    ELSE IF b = <<>> THEN FALSE
    ELSE IF Head(a) = Head(b) THEN IsSubsequence(Tail(a), Tail(b))
    ELSE IsSubsequence(a, Tail(b))

\* C8: in every summary calculateFrequencyStats produces, for every input
\* and threshold, filteredFrequencies is a subsequence of frequencies and
\* outlierCount is the difference of their lengths.
C8_FilteredIsSubsequence ==
    (call.fn = "calculateFrequencyStats" /\ call.returned) =>
        /\ IsSubsequence(call.output.filteredFrequencies,
                         call.output.frequencies)
        /\ call.output.outlierCount =
               Len(call.output.frequencies) -
               Len(call.output.filteredFrequencies)

\* C8 happens: some rates, not all, were removed.
C8_Witness ==
    /\ call.fn = "calculateFrequencyStats" /\ call.returned
    /\ call.output.outlierCount > 0
    /\ call.output.filteredFrequencies # <<>>

\* The call removeOutliers([1, 1, 1, 1, 100], 2.0) has returned.
SpecExampleCall ==
    /\ call.fn = "removeOutliers" /\ call.returned
    /\ call.input = <<RInt(1), RInt(1), RInt(1), RInt(1), RInt(100)>>
    /\ call.threshold = RInt(2)

\* C9 as stated: removeOutliers([1, 1, 1, 1, 100], 2.0) is [1, 1, 1, 1],
\* one outlier.
C9_Removes100 ==
    SpecExampleCall =>
        /\ call.output = <<RInt(1), RInt(1), RInt(1), RInt(1)>>
        /\ Len(call.input) - Len(call.output) = 1

\* C9 amended: the deviation of 100 from the mean 20.8 is 79.2, exactly
\* 2.0 times the population standard deviation 39.6, and the test is <=:
\* removeOutliers([1, 1, 1, 1, 100], 2.0) returns its input, no outlier.
C9_Keeps100 ==
    SpecExampleCall =>
        /\ call.output = call.input
        /\ Len(call.input) - Len(call.output) = 0

C9_Witness == SpecExampleCall

\* The values of a sequence are pairwise distinct.
Distinct(s) == \A i, j \in 1 .. Len(s) : i # j => s[i] # s[j]
Range(s) == {s[i] : i \in 1 .. Len(s)}

\* C10: N >= 2 distinct timestamps given in any order yield N - 1 rates,
\* the i-th the reciprocal of the i-th gap of the timestamps in ascending
\* order.
C10_OneRatePerGap ==
    (/\ call.fn = "calculateFrequencyStats" /\ call.returned
     /\ Len(call.input) >= 2 /\ Distinct(call.input)) =>
        LET t == Ascending(Range(call.input))
        IN  /\ Len(call.output.frequencies) = Len(call.input) - 1
            /\ \A i \in 1 .. Len(call.input) - 1 :
                   call.output.frequencies[i] = <<1, t[i + 1] - t[i]>>

\* C10 happens: MaxStamps distinct timestamps, given out of order, with
\* unequal gaps.
C10_Witness ==
    /\ call.fn = "calculateFrequencyStats" /\ call.returned
    /\ Len(call.input) = MaxStamps /\ Distinct(call.input)
    /\ call.input # Ascending(Range(call.input))
    /\ \E i, j \in 1 .. Len(call.output.frequencies) :
           call.output.frequencies[i] # call.output.frequencies[j]

\* The timestamps of the call in ascending order, repeated values kept:
\* the k-th is the value with fewer than k smaller entries and at least k
\* entries not larger.
AscendingWithRepeats(s) ==
    [k \in 1 .. Len(s) |->
        CHOOSE v \in Range(s) :
            /\ Cardinality({i \in 1 .. Len(s) : s[i] < v}) < k
            /\ Cardinality({i \in 1 .. Len(s) : s[i] <= v}) >= k]

\* C11: timestamps with a repeated value yield fewer than N - 1 rates: as
\* many as there are adjacent pairs of the ascending order with a positive
\* gap.
C11_RepeatedValueSkipped ==
    (/\ call.fn = "calculateFrequencyStats" /\ call.returned
     /\ ~Distinct(call.input)) =>
        LET t == AscendingWithRepeats(call.input)
            gaps == {i \in 1 .. Len(t) - 1 : t[i + 1] - t[i] > 0}
        IN  /\ Len(call.output.frequencies) = Cardinality(gaps)
            /\ Len(call.output.frequencies) < Len(call.input) - 1

\* C11 happens: a repeated value among timestamps that still yield rates.
C11_Witness ==
    /\ call.fn = "calculateFrequencyStats" /\ call.returned
    /\ ~Distinct(call.input)
    /\ Len(call.output.frequencies) >= 2

\* C12: removeOutliers returns an array of fewer than 3 rates as it is, for
\* every threshold, so that no outlier is counted.
C12_FewerThanThreeUnfiltered ==
    (call.fn = "removeOutliers" /\ call.returned /\ Len(call.input) < 3) =>
        /\ call.output = call.input
        /\ Len(call.input) - Len(call.output) = 0

\* C12 happens: two unequal rates and a threshold that would remove both
\* were they filtered.
C12_Witness ==
    /\ call.fn = "removeOutliers" /\ call.returned
    /\ Len(call.input) = 2 /\ call.input[1] # call.input[2]
    /\ call.threshold = <<1, 2>>


\* C13: whenever the filtered rate sequence of a summary is empty (fewer than
\* two timestamps, no positive gap, or every rate filtered out), its mean,
\* median, standard deviation, minimum and maximum are all 0.
C13_EmptyFilteredGivesZeros ==
    (/\ call.fn = "calculateFrequencyStats" /\ call.returned
     /\ call.output.filteredFrequencies = <<>>) =>
        /\ call.output.averageFrequency = Zero
        /\ call.output.medianFrequency = Zero
        /\ call.output.variance = Zero
        /\ call.output.minFrequency = Zero
        /\ call.output.maxFrequency = Zero

\* Every rate of a non-empty rate array was filtered out.
C13_Witness ==
    /\ call.fn = "calculateFrequencyStats" /\ call.returned
    /\ call.output.filteredFrequencies = <<>>
    /\ Len(call.output.frequencies) >= 2
    /\ call.output.outlierCount = Len(call.output.frequencies)
    /\ call.output.maxFrequency = Zero

\* The k-th smallest entry of a non-empty rate array, by counting: fewer than
\* k entries are below it and at least k entries are not above it.
KthSmallest(s, k) ==
    CHOOSE v \in Range(s) :
        /\ Cardinality({i \in 1 .. Len(s) : RLess(s[i], v)}) < k
        /\ Cardinality({i \in 1 .. Len(s) : RLeq(s[i], v)}) >= k

\* What the statistics of a non-empty array of filtered rates have to be.
FilteredStatistics(s, stats) ==
    LET n == Len(s)
    IN  /\ RMul(stats.averageFrequency, RInt(n)) = SumSeq(s)
        /\ stats.medianFrequency =
               IF n % 2 = 1
               THEN KthSmallest(s, (n + 1) \div 2)
               ELSE RDivInt(RAdd(KthSmallest(s, n \div 2),
                                 KthSmallest(s, n \div 2 + 1)), 2)
        /\ stats.minFrequency \in Range(s)
        /\ \A i \in 1 .. n : RLeq(stats.minFrequency, s[i])
        /\ stats.maxFrequency \in Range(s)
        /\ \A i \in 1 .. n : RLeq(s[i], stats.maxFrequency)

\* C14: for a non-empty filtered rate array the median is the middle entry
\* of the ascending sort (odd length) or the mean of the two middle entries
\* (even length), the minimum and maximum are its extreme entries and the
\* mean is its arithmetic mean; [2, 4, 6] gives mean 4, median 4, min 2 and
\* max 6.
C14_MedianMinMaxMean ==
    /\ (call.fn = "summarize" /\ call.returned) =>
           /\ FilteredStatistics(call.input, call.output)
           /\ call.input = <<RInt(2), RInt(4), RInt(6)>> =>
                  /\ call.output.averageFrequency = RInt(4)
                  /\ call.output.medianFrequency = RInt(4)
                  /\ call.output.minFrequency = RInt(2)
                  /\ call.output.maxFrequency = RInt(6)
    /\ (/\ call.fn = "calculateFrequencyStats" /\ call.returned
        /\ call.output.filteredFrequencies # <<>>) =>
           FilteredStatistics(call.output.filteredFrequencies, call.output)

\* C14 happens: an unsorted array of even length whose median is none of its
\* entries.
C14_Witness ==
    /\ call.fn = "summarize" /\ call.returned
    /\ call.input = <<RInt(6), RInt(1), RInt(4), RInt(2)>>
    /\ call.output.medianFrequency = RInt(3)

\* C15: a summary getCachedStats returns from the cache, the topic's set
\* being what it was when the entry was stored, equals the summary computed
\* from scratch over the current set with the current threshold, also after
\* setOutlierThreshold: no entry computed under an older threshold is
\* returned.
C15_CacheFollowsThreshold ==
    (last.op = "getCachedStats" /\ ~last.recomputed) =>
        last.stats = FreshStats(last.topic)

\* C16: a topic's set is the min(cap, k) largest of the k distinct
\* timestamps its messages have carried so far; a timestamp older than every
\* retained one that arrives while the set is at the cap is not in the set
\* afterwards, and a timestamp no longer among the cap largest is not in the
\* set, however often it arrives again.
C16_CapLargestEverInserted ==
    \A t \in Topics :
        LET k == Cardinality(inserted[t])
        IN  /\ TimestampsOf(t) = Largest(inserted[t], MAX_TIMESTAMPS_PER_TOPIC)
            /\ Cardinality(TimestampsOf(t)) =
                   IF k < MAX_TIMESTAMPS_PER_TOPIC
                   THEN k ELSE MAX_TIMESTAMPS_PER_TOPIC
            /\ (/\ last.op = "onRender"
                /\ Cardinality(Before(t)) = MAX_TIMESTAMPS_PER_TOPIC) =>
                   \A ts \in Delivered(t) :
                       (\A kept \in Before(t) : ts < kept) =>
                           ts \notin TimestampsOf(t)

\* C16 happens: more distinct timestamps than the cap have arrived, and the
\* last frame brought one older than every retained timestamp to a set at
\* the cap.
C16_Witness ==
    /\ last.op = "onRender"
    /\ Cardinality(inserted["a"]) > MAX_TIMESTAMPS_PER_TOPIC
    /\ Cardinality(Before("a")) = MAX_TIMESTAMPS_PER_TOPIC
    /\ \E ts \in Delivered("a") : \A kept \in Before("a") : ts < kept
    /\ TimestampsOf("a") = Before("a")

\* The cache entry of a topic, if there is one.
CacheEntry(cache, topic) ==
    IF topic \in DOMAIN cache THEN {cache[topic]} ELSE {}

\* C19: a frame leaves the timestamp set and the cache entry of every topic
\* it has no message of as they were, also when an insert of the frame
\* truncates another topic's set and deletes that topic's cache entry.
C19_OtherTopicsUntouched ==
    [][last'.op = "onRender" =>
          \A t \in Topics :
              (\A i \in 1 .. Len(last'.frame) : last'.frame[i].topic # t) =>
                  /\ (t \in DOMAIN topicTimestamps') =
                         (t \in DOMAIN topicTimestamps)
                  /\ (t \in DOMAIN topicTimestamps =>
                         topicTimestamps'[t] = topicTimestamps[t])
                  /\ CacheEntry(statsCache', t) = CacheEntry(statsCache, t)]_vars

\* C19 happens: a message of topic a overflowed a's set, which deleted a's
\* cache entry, while topic b keeps its timestamp and its cache entry.
C19_Witness ==
    /\ last.op = "onRender"
    /\ Len(last.frame) = 1 /\ last.frame[1].topic = "a"
    /\ Cardinality(PostInsert("a")) > MAX_TIMESTAMPS_PER_TOPIC
    /\ "a" \notin DOMAIN statsCache
    /\ TimestampsOf("b") = {0}
    /\ "b" \in DOMAIN statsCache
    /\ statsCache["b"].timestampCount = 1

(***************************************************************************)
(* The topic selection: the host delivering its topic list, the effect of  *)
(* lines 314-320 and the three selection handlers.  React runs a pending   *)
(* effect before it handles the next event, so every other action waits    *)
(* for it.  No message arrives here: the rest of the panel stays idle.     *)
(***************************************************************************)
\* The topics a host may list, c being one more than are selected at first.
TopicNames == Topics \cup {"c"}

\* renderState.topics: the names of a host's topic list, each once.
TopicLists ==
    {names \in UNION {[1 .. n -> TopicNames] : n \in 0 .. Cardinality(TopicNames)} :
        \A i, j \in 1 .. Len(names) : i # j => names[i] # names[j]}

InitSelection ==
    /\ topicTimestamps = <<>>
    /\ statsCache = <<>>
    /\ outlierThreshold = <<2, 1>>
    /\ last = Idle
    /\ served = [t \in Topics |-> 0]
    /\ call = NoCall
    /\ inserted = [t \in Topics |-> {}]
    /\ topics = [defined |-> FALSE, names |-> <<>>]
    /\ selectedTopics = <<>>
    /\ subscriptions = [called |-> FALSE, topics |-> <<>>]
    /\ effectPending = TRUE
    /\ emptied = FALSE

panelVars ==
    <<topicTimestamps, statsCache, outlierThreshold, last, served, call,
      inserted>>

\* context.onRender (lines 274-306) with a renderState that has topics and
\* no currentFrame: setTopics, and topics is a dependency of the effect.
RenderTopics(names) ==
    /\ ~effectPending
    /\ topics' = Known(names)
    /\ effectPending' = TRUE
    /\ UNCHANGED <<selectedTopics, subscriptions, emptied, panelVars>>

\* The effect of lines 314-320.  It is due again when it changed
\* selectedTopics.length.
InitialSelectionEffect ==
    /\ effectPending
    /\ IF topics.defined /\ Len(selectedTopics) = 0
       THEN LET topicNames == topics.names
            IN  /\ selectedTopics' = Slice(topicNames, InitialSelectionSize)
                /\ subscriptions' = [called |-> TRUE, topics |-> topicNames]
                /\ effectPending' = (Len(selectedTopics') # 0)
       ELSE /\ effectPending' = FALSE
            /\ UNCHANGED <<selectedTopics, subscriptions>>
    /\ UNCHANGED <<topics, emptied, panelVars>>

\* prev.filter((t) => t !== topicName)
Without(prev, topicName) ==
    LET other(t) == t # topicName
    IN  SelectSeq(prev, other)

\* handleTopicSelection (lines 326-336), called by the checkbox of a listed
\* topic (lines 472-479): the checkbox shows whether the topic is selected,
\* so its change event carries the opposite.
HandleTopicSelection(topicName, selected) ==
    /\ ~effectPending
    /\ topics.defined
    /\ \E i \in 1 .. Len(topics.names) : topics.names[i] = topicName
    /\ selected = (\A i \in 1 .. Len(selectedTopics) :
                       selectedTopics[i] # topicName)
    /\ IF selected
       THEN /\ selectedTopics' = Append(selectedTopics, topicName)
            /\ subscriptions' = [called |-> TRUE, topics |-> <<topicName>>]
       ELSE /\ selectedTopics' = Without(selectedTopics, topicName)
            /\ UNCHANGED subscriptions
    /\ effectPending' = (Len(selectedTopics') # Len(selectedTopics))
    /\ emptied' = (Len(selectedTopics') = 0)
    /\ UNCHANGED <<topics, panelVars>>

\* handleSelectAllTopics (lines 338-345)
HandleSelectAllTopics ==
    /\ ~effectPending
    /\ IF ~topics.defined
       THEN UNCHANGED <<selectedTopics, subscriptions, effectPending, emptied>>
       ELSE LET allTopicNames == topics.names
            IN  /\ selectedTopics' = allTopicNames
                /\ subscriptions' = [called |-> TRUE, topics |-> allTopicNames]
                /\ effectPending' = (Len(allTopicNames) # Len(selectedTopics))
                /\ emptied' = FALSE
    /\ UNCHANGED <<topics, panelVars>>

\* handleDeselectAllTopics (lines 347-349)
HandleDeselectAllTopics ==
    /\ ~effectPending
    /\ selectedTopics' = <<>>
    /\ effectPending' = (Len(selectedTopics) # 0)
    /\ emptied' = (topics.defined /\ Len(topics.names) # 0)
    /\ UNCHANGED <<topics, subscriptions, panelVars>>

NextSelection ==
    \/ \E names \in TopicLists : RenderTopics(names)
    \/ InitialSelectionEffect
    \/ \E topicName \in TopicNames, selected \in BOOLEAN :
           HandleTopicSelection(topicName, selected)
    \/ HandleSelectAllTopics
    \/ HandleDeselectAllTopics

SpecSelection == InitSelection /\ [][NextSelection]_vars

\* C17: every selected topic is in the list the most recent
\* context.subscribe call was given.
C17_SubscriptionCoversSelection ==
    \A i \in 1 .. Len(selectedTopics) :
        /\ subscriptions.called
        /\ \E j \in 1 .. Len(subscriptions.topics) :
               subscriptions.topics[j] = selectedTopics[i]

\* C18: from the user's emptying the selection, the topic list being known
\* and non-empty, until the user's next selection action, nothing is
\* selected.
C18_EmptiedStaysEmpty ==
    emptied => Len(selectedTopics) = 0

=========================================================================
